---- MODULE Spec2Model ----
(***************************************************************************)
(* The checkout command of isomorphic-git (src/src/commands/checkout.js)   *)
(* and currentBranch (src/unnamed/part_000), as a state machine over the   *)
(* working directory, the staging index, the ref store, the config store   *)
(* and HEAD.  Each caller runs checkout(ref) and afterwards may ask        *)
(* currentBranch.  The collaborators that are imported but are not part of *)
(* the sources at hand (GitRefManager, GitIndexManager, the walkers,       *)
(* readObject, config) are modelled from the specification's sections 4    *)
(* and 6.                                                                  *)
(***************************************************************************)
EXTENDS Naturals, Sequences, FiniteSets, TLC

\* ------------------------------------------------------------------ bounds
NumPaths == 2

Paths == 1..NumPaths
Callers == {"c1", "c2"}

\* ------------------------------------------------------- objects and trees
\* File contents: "v1" and "v2" are committed, "v3" is a local edit, "v4" is
\* the content of a blob that a tree names but that was never fetched.

\* The content hash of a blob (GitObject hashing): distinct contents have
\* distinct oids.
BlobOid(c) == "sha1:" \o c

KMain == "commit:main"
KFeat == "commit:feature"
KGone == "commit:gone"
KSub  == "commit:submodule"

\* The objects present in storage.  KGone and the blob of "v4" are referenced
\* but absent (a shallow or partial fetch); KSub lives in another repository.
StoredBlobs == {"v1", "v2"}
StoredCommits == {KMain, KFeat}

NoEntry == [type |-> "none", mode |-> "none", oid |-> "none"]
Blob(c, mode) == [type |-> "blob", mode |-> mode, oid |-> BlobOid(c)]
Gitlink == [type |-> "commit", mode |-> "160000", oid |-> KSub]

\* readObject: the stored object of an oid, or the ReadObjectFail error
\* carrying the oid.
ReadObjectMissing(oid) ==
    /\ oid \notin StoredCommits
    /\ \A c \in StoredBlobs : oid # BlobOid(c)

BlobContent(oid) == CHOOSE c \in StoredBlobs : BlobOid(c) = oid

\* ------------------------------------------------------------ working dir
NoFile == [content |-> "none", kind |-> "none"]
File(c, kind) == [content |-> c, kind |-> kind]

\* WORKDIR walker entry: existence and the lazily computed content hash.
WorkdirExists(f) == f # NoFile
WorkdirOid(f) == IF f = NoFile THEN "undefined" ELSE BlobOid(f.content)

\* TREE walker entry: existence, and the oid the tree records.
TreeExists(e) == e.type # "none"
TreeOid(e) == IF e.type = "none" THEN "undefined" ELSE e.oid

\* ------------------------------------------------------------------- refs
\* Ref names are sequences of path components: refs/heads/main is
\* <<"refs", "heads", "main">>.
Undefined == <<>>
NoRef == <<"?">>
NoOid == "none"
Origin == <<"origin">>

Heads(ref) == <<"refs", "heads">> \o ref
Remotes(ref) == <<"refs", "remotes">> \o ref

BranchNames == {<<"main">>, <<"feature">>, <<"topic">>, <<"shallow">>, <<"ghost">>}
RefNames == {Heads(b) : b \in BranchNames} \cup {Remotes(Origin \o b) : b \in BranchNames}

\* The prefixes a ref name is looked up under, in precedence order.
RefPrefixes == << <<>>, <<"refs", "heads">>, <<"refs", "remotes">> >>

RefCandidates(rs, ref) ==
    {k \in 1..Len(RefPrefixes) :
        /\ (RefPrefixes[k] \o ref) \in RefNames
        /\ rs[RefPrefixes[k] \o ref] # NoOid}

FirstOf(S) == CHOOSE k \in S : \A j \in S : k <= j

\* GitRefManager.expand: the full name of the first candidate that exists.
RefExpand(rs, ref) ==
    IF RefCandidates(rs, ref) = {} THEN NoRef
    ELSE RefPrefixes[FirstOf(RefCandidates(rs, ref))] \o ref

\* GitRefManager.resolve without a depth bound: the oid the ref leads to,
\* through HEAD's symbolic indirection when the ref is HEAD.
RefResolve(rs, hd, ref) ==
    IF ref = <<"HEAD">>
    THEN (IF hd \in RefNames THEN rs[hd] ELSE NoOid)
    ELSE IF RefExpand(rs, ref) = NoRef THEN NoOid
    ELSE rs[RefExpand(rs, ref)]

\* GitRefManager.resolve with a depth bound: every indirection that is
\* followed spends one unit, and the name reached when the bound is spent is
\* the answer.  HEAD's file names a ref (one indirection).
RefResolveDepth(hd, ref, depth) ==
    IF ref = <<"HEAD">> /\ depth >= 2 THEN hd ELSE ref

\* GitRefManager.abbrev: the name without its refs/heads/, refs/remotes/
\* prefix.
RefAbbrev(ref) ==
    IF Len(ref) > 2 /\ SubSeq(ref, 1, 2) \in {<<"refs", "heads">>, <<"refs", "remotes">>}
    THEN SubSeq(ref, 3, Len(ref))
    ELSE ref

\* ----------------------------------------------------------------- config
RemoteKey(ref) == <<"branch">> \o ref \o <<"remote">>
MergeKey(ref) == <<"branch">> \o ref \o <<"merge">>
ConfigKeys == {RemoteKey(b) : b \in BranchNames} \cup {MergeKey(b) : b \in BranchNames}
Unset == <<>>

\* -------------------------------------------------------------- variables
VARIABLES
    wd,        \* working directory: path -> file
    index,     \* staging index: path -> recorded oid
    HEAD,      \* the ref name HEAD's file names ("ref: <name>")
    refs,      \* ref store: full ref name -> commit oid
    config,    \* config store: dotted key -> value
    store,     \* object store: stored commit -> its tree (path -> entry)
    lock,      \* holder of the index lock, or "free"
    pc,        \* each caller's position in its checkout call
    loc,       \* each caller's locals: ref, remote, oid, fullRef, operations, errors
    result,    \* what each caller's checkout returned or threw
    branch,    \* what each caller's currentBranch call returned
    pre,       \* the repository as it was when each caller's checkout began
    muts,      \* the mutations each caller's checkout has performed so far
    active     \* the callers that run in this behaviour

vars == <<wd, index, HEAD, refs, config, store, lock, pc, loc, result, branch,
          pre, muts, active>>

repo == [wd |-> wd, index |-> index, HEAD |-> HEAD, refs |-> refs, config |-> config]

\* ---------------------------------------------------- classification walk
NoChange == [ops |-> <<>>, errs |-> <<>>]

Unlink(filepath) ==
    [ops |-> << [op |-> "unlink", filepath |-> filepath, oid |-> "none", mode |-> "none"] >>,
     errs |-> <<>>]

Write(filepath, next) ==
    [ops |-> << [op |-> "write", filepath |-> filepath, oid |-> next.oid, mode |-> next.mode] >>,
     errs |-> <<>>]

Conflict(filepath, why) ==
    [ops |-> <<>>,
     errs |-> << [code |-> "InternalFail", filepath |-> filepath, why |-> why] >>]

\* The first walk's callback with the last branch (lines 177-181) queueing
\* an overwrite instead of reporting the conflict.
CheckoutMapOverwrite(filepath, workdir, head, next) ==
    IF ~TreeExists(head) /\ ~TreeExists(next) THEN NoChange
    ELSE IF next.type = "tree" THEN NoChange
    ELSE IF next.type = "commit" THEN NoChange
    ELSE IF TreeExists(head) /\ ~TreeExists(next) THEN
        (IF ~WorkdirExists(workdir) THEN NoChange
         ELSE IF WorkdirOid(workdir) = TreeOid(head) THEN Unlink(filepath)
         ELSE Conflict(filepath, "deleted"))
    ELSE IF ~TreeExists(head) /\ TreeExists(next) THEN
        (IF ~WorkdirExists(workdir) THEN Write(filepath, next)
         ELSE IF WorkdirOid(workdir) = TreeOid(next) THEN NoChange
         ELSE Conflict(filepath, "added"))
    ELSE
        (IF TreeOid(head) = TreeOid(next) THEN NoChange
         ELSE IF WorkdirOid(workdir) = TreeOid(next) THEN NoChange
         ELSE Write(filepath, next))

\* The first walk's callback leaving a deleted path's unmodified file in
\* place instead of queueing its unlink (lines 115-119).
CheckoutMapKeepDeleted(filepath, workdir, head, next) ==
    IF ~TreeExists(head) /\ ~TreeExists(next) THEN NoChange
    ELSE IF next.type = "tree" THEN NoChange
    ELSE IF next.type = "commit" THEN NoChange
    ELSE IF TreeExists(head) /\ ~TreeExists(next) THEN
        (IF ~WorkdirExists(workdir) THEN NoChange
         ELSE IF WorkdirOid(workdir) = TreeOid(head) THEN NoChange
         ELSE Conflict(filepath, "deleted"))
    ELSE IF ~TreeExists(head) /\ TreeExists(next) THEN
        (IF ~WorkdirExists(workdir) THEN Write(filepath, next)
         ELSE IF WorkdirOid(workdir) = TreeOid(next) THEN NoChange
         ELSE Conflict(filepath, "added"))
    ELSE
        (IF TreeOid(head) = TreeOid(next) THEN NoChange
         ELSE IF WorkdirOid(workdir) = TreeOid(next) THEN NoChange
         ELSE IF WorkdirOid(workdir) = TreeOid(head) THEN Write(filepath, next)
         ELSE Conflict(filepath, "changed"))

\* The map callback of the first walk: what one path contributes to the
\* operations and errors lists.
CheckoutMap(filepath, workdir, head, next) ==
    IF ~TreeExists(head) /\ ~TreeExists(next) THEN NoChange
    ELSE IF next.type = "tree" THEN NoChange
    ELSE IF next.type = "commit" THEN NoChange
    ELSE IF TreeExists(head) /\ ~TreeExists(next) THEN
        (IF ~WorkdirExists(workdir) THEN NoChange
         ELSE IF WorkdirOid(workdir) = TreeOid(head) THEN Unlink(filepath)
         ELSE Conflict(filepath, "deleted"))
    ELSE IF ~TreeExists(head) /\ TreeExists(next) THEN
        (IF ~WorkdirExists(workdir) THEN Write(filepath, next)
         ELSE IF WorkdirOid(workdir) = TreeOid(next) THEN NoChange
         ELSE Conflict(filepath, "added"))
    ELSE
        (IF TreeOid(head) = TreeOid(next) THEN NoChange
         ELSE IF WorkdirOid(workdir) = TreeOid(next) THEN NoChange
         ELSE IF WorkdirOid(workdir) = TreeOid(head) THEN Write(filepath, next)
         ELSE Conflict(filepath, "changed"))

\* walkBeta1 over WORKDIR, STAGE, TREE(currentRef), TREE(ref): the paths in
\* ascending order, each visited once, the callback appending to the
\* operations and errors lists of lines 75-76.
RECURSIVE WalkCheckout(_, _, _, _)
RECURSIVE WalkCheckoutFailFast(_, _, _, _)

\* The walk stopping at the first path that reports a conflict.
WalkCheckoutFailFast(k, w, head, next) ==
    IF k > NumPaths THEN NoChange
    ELSE LET here == CheckoutMap(k, w[k], head[k], next[k])
             rest == WalkCheckoutFailFast(k + 1, w, head, next)
         IN IF here.errs # <<>> THEN here
            ELSE [ops |-> here.ops \o rest.ops, errs |-> here.errs \o rest.errs]

WalkCheckout(k, w, head, next) ==
    IF k > NumPaths THEN NoChange
    ELSE LET here == CheckoutMap(k, w[k], head[k], next[k])
             rest == WalkCheckout(k + 1, w, head, next)
         IN [ops |-> here.ops \o rest.ops, errs |-> here.errs \o rest.errs]

\* TREE({ref}): the commit the ref resolves to; reading it fails when the
\* commit is not in storage.
TreeCommit(rs, hd, ref) == RefResolve(rs, hd, ref)
TreeReadable(rs, hd, ref) == TreeCommit(rs, hd, ref) \in StoredCommits

\* ------------------------------------------------------------ apply phase
\* One loop over the queue in its order, which stops removing at the first
\* queued write.
RECURSIVE ApplyUnlinksUntilWrite(_, _)
ApplyUnlinksUntilWrite(operations, w) ==
    IF operations = <<>> THEN w
    ELSE LET op == Head(operations)
         IN IF op.op = "write" THEN w
            ELSE ApplyUnlinksUntilWrite(Tail(operations),
                                        [w EXCEPT ![op.filepath] = NoFile])

\* Lines 203-209: every queued unlink removes its file; a failing rm is
\* swallowed.
RECURSIVE ApplyUnlinks(_, _)
ApplyUnlinks(operations, w) ==
    IF operations = <<>> THEN w
    ELSE LET op == Head(operations)
         IN ApplyUnlinks(Tail(operations),
                         IF op.op = "unlink"
                         THEN [w EXCEPT ![op.filepath] = NoFile]
                         ELSE w)

\* Line 212: readObject returns a promise and is not awaited, so the
\* destructured type is undefined whatever the object is.
UnawaitedType(oid) == "undefined"

\* Lines 210-229: the first queued write whose object type is not blob
\* throws, so the mode switch of lines 220-227 (whose fs.write names a
\* filepath that is not in scope there) is not reached and no file is
\* written by this loop.
WritesThrow(operations) ==
    \E k \in 1..Len(operations) :
        /\ operations[k].op = "write"
        /\ UnawaitedType(operations[k].oid) # "blob"

\* The removal loop taking every file of the working directory, and the
\* index left as it is.
CleanWorkdirAll(ix, w) == [p \in Paths |-> NoFile]
ClearIndexKeep(ix) == ix

\* Lines 234-239: every file that has an index entry is removed, and the
\* index is cleared.
CleanWorkdir(ix, w) == [p \in Paths |-> IF ix[p] # NoOid THEN NoFile ELSE w[p]]
ClearIndex(ix) == [p \in Paths |-> NoOid]

Outcome(w, ix, err, oid) == [wd |-> w, index |-> ix, err |-> err, oid |-> oid]

\* The file a blob of the given mode becomes (lines 269-284).
FileKind(mode) ==
    IF mode = "100644" THEN "file"
    ELSE IF mode = "100755" THEN "exec"
    ELSE IF mode = "120000" THEN "link"
    ELSE "invalid"

\* The second walk's callback without the index.insert of lines 292-296.
RebuildMapNoInsert(filepath, head, w, ix) ==
    IF head.type # "blob" THEN Outcome(w, ix, "none", "none")
    ELSE IF ReadObjectMissing(head.oid) THEN Outcome(w, ix, "ReadObjectFail", head.oid)
    ELSE IF FileKind(head.mode) = "invalid" THEN Outcome(w, ix, "InternalFail", head.oid)
    ELSE Outcome([w EXCEPT ![filepath] = File(BlobContent(head.oid), FileKind(head.mode))],
                 ix, "none", "none")

\* The second walk's callback recording a submodule entry in the index.
RebuildMapGitlinkAsBlob(filepath, head, w, ix) ==
    IF ~TreeExists(head) THEN Outcome(w, ix, "none", "none")
    ELSE IF head.type = "tree" THEN Outcome(w, ix, "none", "none")
    ELSE IF head.type = "commit" THEN
        Outcome(w, [ix EXCEPT ![filepath] = head.oid], "none", "none")
    ELSE IF head.type = "blob" THEN
        (IF ReadObjectMissing(head.oid) THEN Outcome(w, ix, "ReadObjectFail", head.oid)
         ELSE IF FileKind(head.mode) = "invalid" THEN Outcome(w, ix, "InternalFail", head.oid)
         ELSE Outcome([w EXCEPT ![filepath] = File(BlobContent(head.oid), FileKind(head.mode))],
                      [ix EXCEPT ![filepath] = head.oid],
                      "none", "none"))
    ELSE Outcome(w, ix, "ObjectTypeAssertionInTreeFail", head.oid)

\* The map callback of the second walk (lines 246-307) on one path of the
\* new tree.
RebuildMap(filepath, head, w, ix) ==
    IF ~TreeExists(head) THEN Outcome(w, ix, "none", "none")
    ELSE IF head.type = "tree" THEN Outcome(w, ix, "none", "none")
    ELSE IF head.type = "commit" THEN Outcome(w, ix, "none", "none")
    ELSE IF head.type = "blob" THEN
        (IF ReadObjectMissing(head.oid) THEN Outcome(w, ix, "ReadObjectFail", head.oid)
         ELSE IF FileKind(head.mode) = "invalid" THEN Outcome(w, ix, "InternalFail", head.oid)
         ELSE Outcome([w EXCEPT ![filepath] = File(BlobContent(head.oid), FileKind(head.mode))],
                      [ix EXCEPT ![filepath] = head.oid],
                      "none", "none"))
    ELSE Outcome(w, ix, "ObjectTypeAssertionInTreeFail", head.oid)

\* walkBeta1 over TREE(ref), WORKDIR: paths ascending, stopping at the first
\* path whose callback throws; what was written before stays written.
RECURSIVE WalkRebuild(_, _, _, _)
WalkRebuild(k, tree, w, ix) ==
    IF k > NumPaths THEN Outcome(w, ix, "none", "none")
    ELSE LET r == RebuildMap(k, tree[k], w, ix)
         IN IF r.err # "none" THEN r ELSE WalkRebuild(k + 1, tree, r.wd, r.index)

\* Lines 309-316: a failed read of exactly the target commit is re-labelled.
Relabel(err, erroid, oid) ==
    IF err = "ReadObjectFail" /\ erroid = oid THEN "CommitNotFetchedError" ELSE err

\* currentBranch abbreviating whatever fullname says.
CurrentBranchAlwaysShort(hd, fullname) == RefAbbrev(RefResolveDepth(hd, <<"HEAD">>, 2))

\* ---------------------------------------------------------- currentBranch
CurrentBranch(hd, fullname) ==
    LET ref == RefResolveDepth(hd, <<"HEAD">>, 2)
    IN IF fullname THEN ref ELSE RefAbbrev(ref)

\* ------------------------------------------------------------- the calls
RefInputs == BranchNames \cup {Undefined}

NoLocals ==
    [ref |-> Undefined, remote |-> Origin, oid |-> NoOid, fullRef |-> NoRef,
     currentRef |-> NoRef, operations |-> <<>>, errors |-> <<>>]

NoResult == [status |-> "none", code |-> "none", oid |-> "none"]
Returned(status) == [status |-> status, code |-> "none", oid |-> "none"]
Thrown(code, oid) == [status |-> "throw", code |-> code, oid |-> oid]

Mut(kind, path) == [kind |-> kind, path |-> path]

\* Lines 54-65: the tracking configuration of a new branch.
TrackedConfig(cfg, ref, remote) ==
    [cfg EXCEPT ![RemoteKey(ref)] = remote, ![MergeKey(ref)] = Heads(ref)]

\* The new branch created at the commit of the current branch instead.
TrackedRefsAtHead(rs, ref, oid) == [rs EXCEPT ![Heads(ref)] = rs[Heads(<<"main">>)]]

\* Line 67: the new branch points at the commit of the remote branch.
TrackedRefs(rs, ref, oid) == [rs EXCEPT ![Heads(ref)] = oid]

\* The resolution writing the tracking configuration before it resolves
\* remote/ref.
ResolutionConfigFirst(rs, hd, cfg, ref, remote) ==
    IF ref = Undefined
    THEN [err |-> "MissingRequiredParameterError", oid |-> NoOid, refs |-> rs, config |-> cfg]
    ELSE IF RefResolve(rs, hd, ref) # NoOid
    THEN [err |-> "none", oid |-> RefResolve(rs, hd, ref), refs |-> rs, config |-> cfg]
    ELSE IF RefResolve(rs, hd, remote \o ref) = NoOid
    THEN [err |-> "ResolveRefError", oid |-> NoOid, refs |-> rs,
          config |-> TrackedConfig(cfg, ref, remote)]
    ELSE [err |-> "none",
          oid |-> RefResolve(rs, hd, remote \o ref),
          refs |-> TrackedRefs(rs, ref, RefResolve(rs, hd, remote \o ref)),
          config |-> TrackedConfig(cfg, ref, remote)]

\* Lines 32-68: the commit to check out, and the ref and config stores
\* after the resolution.
Resolution(rs, hd, cfg, ref, remote) ==
    IF ref = Undefined
    THEN [err |-> "MissingRequiredParameterError", oid |-> NoOid, refs |-> rs, config |-> cfg]
    ELSE IF RefResolve(rs, hd, ref) # NoOid
    THEN [err |-> "none", oid |-> RefResolve(rs, hd, ref), refs |-> rs, config |-> cfg]
    ELSE IF RefResolve(rs, hd, remote \o ref) = NoOid
    THEN [err |-> "ResolveRefError", oid |-> NoOid, refs |-> rs, config |-> cfg]
    ELSE [err |-> "none",
          oid |-> RefResolve(rs, hd, remote \o ref),
          refs |-> TrackedRefs(rs, ref, RefResolve(rs, hd, remote \o ref)),
          config |-> TrackedConfig(cfg, ref, remote)]

\* Lines 30-71: parameter check, resolution (creating the tracking branch
\* when only the remote has the ref), expansion, and the current branch.
Resolve(i) ==
    /\ i \in active
    /\ pc[i] = "idle"
    /\ \E ref \in RefInputs :
        LET r == Resolution(refs, HEAD, config, ref, Origin)
            fullRef == RefExpand(r.refs, ref)
            err == IF r.err # "none" THEN r.err
                   ELSE IF fullRef = NoRef THEN "ExpandRefError"
                   ELSE "none"
        IN /\ refs' = r.refs
           /\ config' = r.config
           /\ loc' = [loc EXCEPT ![i] =
                        [NoLocals EXCEPT !.ref = ref, !.oid = r.oid, !.fullRef = fullRef,
                                         !.currentRef = CurrentBranch(HEAD, TRUE)]]
           /\ pre' = [pre EXCEPT ![i] = repo]
           /\ muts' = [muts EXCEPT ![i] =
                        (IF r.refs # refs THEN {Mut("ref", 0)} ELSE {})
                        \cup (IF r.config # config THEN {Mut("config", 0)} ELSE {})]
           /\ result' = [result EXCEPT ![i] = IF err = "none" THEN NoResult ELSE Thrown(err, NoOid)]
           /\ pc' = [pc EXCEPT ![i] = IF err = "none" THEN "classify" ELSE "done"]
    /\ UNCHANGED <<wd, index, HEAD, store, lock, branch, active>>

\* Lines 75-194 with a map callback that removes a file as soon as it
\* classifies it as deleted, instead of queueing the unlink.
ClassifyEager(i) ==
    /\ i \in active
    /\ pc[i] = "classify"
    /\ IF ~TreeReadable(refs, HEAD, loc[i].currentRef) \/ ~TreeReadable(refs, HEAD, loc[i].ref)
       THEN /\ result' = [result EXCEPT ![i] = Thrown("ReadObjectFail", "none")]
            /\ pc' = [pc EXCEPT ![i] = "done"]
            /\ UNCHANGED <<loc, wd, muts>>
       ELSE LET plan == WalkCheckout(1, wd,
                                     store[TreeCommit(refs, HEAD, loc[i].currentRef)],
                                     store[TreeCommit(refs, HEAD, loc[i].ref)])
            IN /\ loc' = [loc EXCEPT ![i].operations = plan.ops, ![i].errors = plan.errs]
               /\ wd' = ApplyUnlinks(plan.ops, wd)
               /\ muts' = [muts EXCEPT ![i] = @ \cup
                            {Mut("rm", plan.ops[k].filepath) :
                               k \in {j \in 1..Len(plan.ops) : plan.ops[j].op = "unlink"}}]
               /\ result' = [result EXCEPT ![i] =
                    IF plan.errs # <<>> THEN Returned("conflicts") ELSE NoResult]
               /\ pc' = [pc EXCEPT ![i] = IF plan.errs # <<>> THEN "done" ELSE "acquire"]
    /\ UNCHANGED <<index, HEAD, refs, config, store, lock, branch, pre, active>>

\* Lines 75-194: both trees are opened, every path is classified, and a
\* non-empty errors list is returned.
Classify(i) ==
    /\ i \in active
    /\ pc[i] = "classify"
    /\ IF ~TreeReadable(refs, HEAD, loc[i].currentRef)
       THEN /\ result' = [result EXCEPT ![i] =
                    Thrown("ReadObjectFail", TreeCommit(refs, HEAD, loc[i].currentRef))]
            /\ pc' = [pc EXCEPT ![i] = "done"]
            /\ loc' = loc
       ELSE IF ~TreeReadable(refs, HEAD, loc[i].ref)
       THEN /\ result' = [result EXCEPT ![i] =
                    Thrown("ReadObjectFail", TreeCommit(refs, HEAD, loc[i].ref))]
            /\ pc' = [pc EXCEPT ![i] = "done"]
            /\ loc' = loc
       ELSE LET plan == WalkCheckout(1, wd,
                                     store[TreeCommit(refs, HEAD, loc[i].currentRef)],
                                     store[TreeCommit(refs, HEAD, loc[i].ref)])
            IN /\ loc' = [loc EXCEPT ![i].operations = plan.ops, ![i].errors = plan.errs]
               /\ result' = [result EXCEPT ![i] =
                    IF plan.errs # <<>> THEN Returned("conflicts") ELSE NoResult]
               /\ pc' = [pc EXCEPT ![i] = IF plan.errs # <<>> THEN "done" ELSE "acquire"]
    /\ UNCHANGED <<wd, index, HEAD, refs, config, store, lock, branch, pre, muts, active>>

\* Line 199: GitIndexManager.acquire grants the index lock to one caller at
\* a time.
Acquire(i) ==
    /\ i \in active
    /\ pc[i] = "acquire"
    /\ lock = "free"
    /\ lock' = i
    /\ pc' = [pc EXCEPT ![i] = "unlinks"]
    /\ UNCHANGED <<wd, index, HEAD, refs, config, store, loc, result, branch, pre,
                   muts, active>>

\* Lines 203-209.
Unlinks(i) ==
    /\ i \in active
    /\ pc[i] = "unlinks"
    /\ wd' = ApplyUnlinks(loc[i].operations, wd)
    /\ muts' = [muts EXCEPT ![i] = @ \cup
                 {Mut("rm", loc[i].operations[k].filepath) :
                    k \in {j \in 1..Len(loc[i].operations) : loc[i].operations[j].op = "unlink"}}]
    /\ pc' = [pc EXCEPT ![i] = "writes"]
    /\ UNCHANGED <<index, HEAD, refs, config, store, lock, loc, result, branch, pre,
                   active>>

\* Lines 210-229; a throw leaves the callback and the lock is released.
Writes(i) ==
    /\ i \in active
    /\ pc[i] = "writes"
    /\ IF WritesThrow(loc[i].operations)
       THEN /\ result' = [result EXCEPT ![i] = Thrown("ObjectTypeAssertionInTreeFail", "none")]
            /\ pc' = [pc EXCEPT ![i] = "done"]
            /\ lock' = "free"
       ELSE /\ pc' = [pc EXCEPT ![i] = "clean"]
            /\ UNCHANGED <<result, lock>>
    /\ UNCHANGED <<wd, index, HEAD, refs, config, store, loc, branch, pre, muts,
                   active>>

\* Lines 234-239.
Clean(i) ==
    /\ i \in active
    /\ pc[i] = "clean"
    /\ wd' = CleanWorkdir(index, wd)
    /\ index' = ClearIndex(index)
    /\ muts' = [muts EXCEPT ![i] = @ \cup {Mut("rm", p) : p \in {q \in Paths : index[q] # NoOid}}
                                     \cup {Mut("index", 0)}]
    /\ pc' = [pc EXCEPT ![i] = "rebuild"]
    /\ UNCHANGED <<HEAD, refs, config, store, lock, loc, result, branch, pre,
                   active>>

\* The second walk with HEAD rewritten before it, so that a failing walk
\* leaves HEAD on the new ref.
RebuildHeadEarly(i) ==
    /\ i \in active
    /\ pc[i] = "rebuild"
    /\ LET r == IF TreeReadable(refs, HEAD, loc[i].ref)
                THEN WalkRebuild(1, store[TreeCommit(refs, HEAD, loc[i].ref)], wd, index)
                ELSE Outcome(wd, index, "ReadObjectFail", TreeCommit(refs, HEAD, loc[i].ref))
       IN /\ wd' = r.wd
          /\ index' = r.index
          /\ HEAD' = loc[i].fullRef
          /\ muts' = [muts EXCEPT ![i] = @ \cup {Mut("write", p) : p \in {q \in Paths : r.wd[q] # wd[q]}}
                                           \cup {Mut("index", p) : p \in {q \in Paths : r.index[q] # index[q]}}
                                           \cup {Mut("HEAD", 0)}]
          /\ IF r.err # "none"
             THEN /\ result' = [result EXCEPT ![i] = Thrown(Relabel(r.err, r.oid, loc[i].oid), r.oid)]
                  /\ pc' = [pc EXCEPT ![i] = "done"]
                  /\ lock' = "free"
             ELSE /\ pc' = [pc EXCEPT ![i] = "head"]
                  /\ UNCHANGED <<result, lock>>
    /\ UNCHANGED <<refs, config, store, loc, branch, pre, active>>

\* Lines 240-316: the second walk; its error, re-labelled, leaves the
\* callback and the lock is released.
Rebuild(i) ==
    /\ i \in active
    /\ pc[i] = "rebuild"
    /\ LET r == IF TreeReadable(refs, HEAD, loc[i].ref)
                THEN WalkRebuild(1, store[TreeCommit(refs, HEAD, loc[i].ref)], wd, index)
                ELSE Outcome(wd, index, "ReadObjectFail", TreeCommit(refs, HEAD, loc[i].ref))
       IN /\ wd' = r.wd
          /\ index' = r.index
          /\ muts' = [muts EXCEPT ![i] = @ \cup {Mut("write", p) : p \in {q \in Paths : r.wd[q] # wd[q]}}
                                           \cup {Mut("index", p) : p \in {q \in Paths : r.index[q] # index[q]}}]
          /\ IF r.err # "none"
             THEN /\ result' = [result EXCEPT ![i] = Thrown(Relabel(r.err, r.oid, loc[i].oid), r.oid)]
                  /\ pc' = [pc EXCEPT ![i] = "done"]
                  /\ lock' = "free"
             ELSE /\ pc' = [pc EXCEPT ![i] = "head"]
                  /\ UNCHANGED <<result, lock>>
    /\ UNCHANGED <<HEAD, refs, config, store, loc, branch, pre, active>>

\* Line 318 writing the ref as it was given, not its expanded name.
UpdateHeadAsGiven(i) ==
    /\ i \in active
    /\ pc[i] = "head"
    /\ HEAD' = loc[i].ref
    /\ muts' = [muts EXCEPT ![i] = @ \cup {Mut("HEAD", 0)}]
    /\ result' = [result EXCEPT ![i] = Returned("ok")]
    /\ pc' = [pc EXCEPT ![i] = "done"]
    /\ lock' = "free"
    /\ UNCHANGED <<wd, index, refs, config, store, loc, branch, pre, active>>

\* Line 318, after which the callback returns and the lock is released.
UpdateHead(i) ==
    /\ i \in active
    /\ pc[i] = "head"
    /\ HEAD' = loc[i].fullRef
    /\ muts' = [muts EXCEPT ![i] = @ \cup {Mut("HEAD", 0)}]
    /\ result' = [result EXCEPT ![i] = Returned("ok")]
    /\ pc' = [pc EXCEPT ![i] = "done"]
    /\ lock' = "free"
    /\ UNCHANGED <<wd, index, refs, config, store, loc, branch, pre, active>>

\* currentBranch, called once the caller's checkout is over.
AskBranch(i) ==
    /\ i \in active
    /\ pc[i] = "done"
    /\ \E fullname \in BOOLEAN :
        branch' = [branch EXCEPT ![i] = [fullname |-> fullname, name |-> CurrentBranch(HEAD, fullname)]]
    /\ pc' = [pc EXCEPT ![i] = "asked"]
    /\ UNCHANGED <<wd, index, HEAD, refs, config, store, lock, loc, result, pre, muts,
                   active>>

\* ------------------------------------------------------- initial states
\* A clone whose main branch is checked out clean: refs/heads/main and
\* refs/heads/feature exist locally, topic only on the remote, shallow names
\* a commit that was not fetched, ghost exists nowhere.
InitRefs ==
    [n \in RefNames |->
        IF n = Heads(<<"main">>) \/ n = Remotes(Origin \o <<"main">>) THEN KMain
        ELSE IF n = Heads(<<"feature">>) \/ n = Remotes(Origin \o <<"feature">>) THEN KFeat
        ELSE IF n = Remotes(Origin \o <<"topic">>) THEN KFeat
        ELSE IF n = Heads(<<"shallow">>) THEN KGone
        ELSE NoOid]

A == NoEntry
V1 == Blob("v1", "100644")
V2 == Blob("v2", "100644")
Work(c) == File(c, "file")
Scenario(head, next, file, idx) == [head |-> head, next |-> next, file |-> file, idx |-> idx]

\* What one path can be when checkout is called: its entry in the tree of
\* the current branch (head) and of the target (next), its file, and its
\* index entry.  Each is a state that commits, edits and add produce.
TableScenarios ==
    { Scenario(A, A, NoFile, NoOid),
      Scenario(A, A, Work("v3"), NoOid),
      Scenario(A, A, Work("v3"), BlobOid("v3")),
      Scenario(V1, A, Work("v1"), BlobOid("v1")),
      Scenario(V1, A, Work("v3"), BlobOid("v1")),
      Scenario(V1, A, NoFile, BlobOid("v1")),
      Scenario(A, V1, NoFile, NoOid),
      Scenario(A, V1, Work("v1"), NoOid),
      Scenario(A, V1, Work("v3"), NoOid),
      Scenario(V1, V1, Work("v1"), BlobOid("v1")),
      Scenario(V1, V1, Work("v3"), BlobOid("v1")),
      Scenario(V1, V1, Work("v3"), BlobOid("v3")),
      Scenario(V1, V1, NoFile, BlobOid("v1")),
      Scenario(V1, V2, Work("v2"), BlobOid("v1")),
      Scenario(V1, V2, Work("v1"), BlobOid("v1")),
      Scenario(V1, V2, Work("v3"), BlobOid("v1")),
      Scenario(V1, V2, NoFile, BlobOid("v1")) }

\* Submodules, executables, an invalid mode, a blob that was not fetched.
OtherScenarios ==
    { Scenario(V1, Gitlink, Work("v1"), BlobOid("v1")),
      Scenario(V1, Gitlink, Work("v3"), BlobOid("v1")),
      Scenario(A, Gitlink, NoFile, NoOid),
      Scenario(V1, Blob("v2", "100755"), Work("v2"), BlobOid("v1")),
      Scenario(V1, Blob("v1", "100000"), Work("v1"), BlobOid("v1")),
      Scenario(A, Blob("v4", "100644"), Work("v4"), NoOid) }

Scenarios == TableScenarios \cup OtherScenarios

InitRepo(who, scenarios) ==
    /\ \E s \in [Paths -> scenarios] :
        /\ store = [k \in StoredCommits |->
                      [p \in Paths |-> IF k = KMain THEN s[p].head ELSE s[p].next]]
        /\ wd = [p \in Paths |-> s[p].file]
        /\ index = [p \in Paths |-> s[p].idx]
    /\ HEAD = Heads(<<"main">>)
    /\ refs = InitRefs
    /\ config = [k \in ConfigKeys |-> Unset]
    /\ lock = "free"
    /\ pc = [i \in Callers |-> "idle"]
    /\ loc = [i \in Callers |-> NoLocals]
    /\ result = [i \in Callers |-> NoResult]
    /\ branch = [i \in Callers |-> [fullname |-> FALSE, name |-> NoRef]]
    /\ pre = [i \in Callers |-> repo]
    /\ muts = [i \in Callers |-> {}]
    /\ active = who

Checkout(i) ==
    \/ Resolve(i)
    \/ Classify(i)
    \/ Acquire(i)
    \/ Unlinks(i)
    \/ Writes(i)
    \/ Clean(i)
    \/ Rebuild(i)
    \/ UpdateHead(i)
    \/ AskBranch(i)

\* One caller.
Init == InitRepo({"c1"}, Scenarios)

Next == \E i \in Callers : Checkout(i)

Spec == Init /\ [][Next]_vars

\* Two callers on one working directory.
ConcScenarios ==
    { Scenario(V1, A, Work("v1"), BlobOid("v1")),
      Scenario(V1, V1, Work("v1"), BlobOid("v1")),
      Scenario(V1, V1, Work("v3"), BlobOid("v1")),
      Scenario(A, V1, NoFile, NoOid),
      Scenario(V1, V2, Work("v3"), BlobOid("v1")),
      Scenario(A, A, Work("v3"), BlobOid("v3")) }

InitConc == InitRepo(Callers, ConcScenarios)

SpecConc == InitConc /\ [][Next]_vars

\* ------------------------------------------------------------ properties
Over(i) == i \in active /\ pc[i] \in {"done", "asked"}

\* The trees a call compares: of the branch that was current when it began,
\* and of the commit it resolved.
HeadTree(i) == store[pre[i].refs[pre[i].HEAD]]
NextTree(i) == store[loc[i].oid]
Compared(i) == loc[i].oid \in StoredCommits

ConflictPaths(i) == {loc[i].errors[k].filepath : k \in 1..Len(loc[i].errors)}
FileMuts(i) == {m \in muts[i] : m.kind \in {"rm", "write"}}

\* C1: whenever checkout returns a non-empty list of conflicts, the working
\* directory, the index, HEAD, the refs and the config are as they were
\* before the call, also when the ref was resolved through remote/ref.
C1_AllOrNothing ==
    \A i \in Callers :
        (Over(i) /\ result[i].status = "conflicts") => repo = pre[i]

\* C2: after a successful checkout, every blob path of the new tree has a
\* working-directory file whose hash is the tree's oid, and an index entry
\* recording the same oid.
C2_Materialized ==
    \A i \in Callers :
        (Over(i) /\ result[i].status = "ok") =>
            \A p \in Paths :
                NextTree(i)[p].type = "blob" =>
                    /\ WorkdirOid(wd[p]) = NextTree(i)[p].oid
                    /\ index[p] = NextTree(i)[p].oid

C2_Witness ==
    \E i \in Callers, p \in Paths :
        /\ Over(i) /\ result[i].status = "ok"
        /\ NextTree(i)[p].type = "blob"
        /\ pre[i].wd[p] # wd[p]
        /\ pre[i].index[p] # index[p]

\* C3 as stated: a path in head and in next with different oids, whose
\* working-directory hash differs from both, is reported as a conflict and
\* no file is written or removed.
C3_AnyEntry ==
    \A i \in Callers, p \in Paths :
        ( /\ Over(i) /\ Compared(i)
          /\ TreeExists(HeadTree(i)[p]) /\ TreeExists(NextTree(i)[p])
          /\ HeadTree(i)[p].oid # NextTree(i)[p].oid
          /\ WorkdirOid(pre[i].wd[p]) \notin {HeadTree(i)[p].oid, NextTree(i)[p].oid} )
        => ( /\ result[i].status = "conflicts"
             /\ p \in ConflictPaths(i)
             /\ FileMuts(i) = {}
             /\ wd = pre[i].wd )

\* C3, amended: the same for a path whose entries in head and in next are
\* files (blobs).
C3_FileEntry ==
    \A i \in Callers, p \in Paths :
        ( /\ Over(i) /\ Compared(i)
          /\ HeadTree(i)[p].type = "blob" /\ NextTree(i)[p].type = "blob"
          /\ HeadTree(i)[p].oid # NextTree(i)[p].oid
          /\ WorkdirOid(pre[i].wd[p]) \notin {HeadTree(i)[p].oid, NextTree(i)[p].oid} )
        => ( /\ result[i].status = "conflicts"
             /\ p \in ConflictPaths(i)
             /\ FileMuts(i) = {}
             /\ wd = pre[i].wd )

C3_Witness ==
    \E i \in Callers, p \in Paths :
        /\ Over(i) /\ Compared(i)
        /\ TreeExists(HeadTree(i)[p]) /\ NextTree(i)[p].type = "blob"
        /\ HeadTree(i)[p].oid # NextTree(i)[p].oid
        /\ pre[i].wd[p] = Work("v3")
        /\ result[i].status = "conflicts"
        /\ \E k \in 1..Len(loc[i].operations) : loc[i].operations[k].filepath # p

\* C4: over a whole call a file is gone only if its path is in head, absent
\* from next and its hash was head's oid (a file with an index entry whose
\* path is absent from next included); a locally modified path that next
\* deletes is a conflict and stays.  Stated for the calls that return, where
\* no apply-phase failure has cut the call short, and for the paths that next
\* holds as a file or not at all.
Returns(i) == Over(i) /\ result[i].status \in {"ok", "conflicts"}

C4_DeleteOnlyUnmodified ==
    \A i \in Callers, p \in Paths :
        /\ ( /\ Returns(i) /\ pre[i].wd[p] # NoFile /\ wd[p] = NoFile
             /\ Compared(i) /\ NextTree(i)[p].type \in {"none", "blob"} ) =>
            /\ Compared(i)
            /\ TreeExists(HeadTree(i)[p])
            /\ ~TreeExists(NextTree(i)[p])
            /\ WorkdirOid(pre[i].wd[p]) = HeadTree(i)[p].oid
        /\ ( /\ Over(i) /\ Compared(i)
             /\ TreeExists(HeadTree(i)[p]) /\ ~TreeExists(NextTree(i)[p])
             /\ pre[i].wd[p] # NoFile
             /\ WorkdirOid(pre[i].wd[p]) # HeadTree(i)[p].oid ) =>
            /\ result[i].status = "conflicts"
            /\ p \in ConflictPaths(i)
            /\ wd[p] = pre[i].wd[p]

\* C5: when ref does not resolve locally but remote/ref does, refs/heads/ref
\* holds the oid remote/ref resolves to, branch.ref.remote is the remote and
\* branch.ref.merge is refs/heads/ref; when ref resolves locally, no ref and
\* no config key is written.
Started(i) == i \in active /\ pc[i] # "idle" /\ loc[i].ref # Undefined

LocalOid(i) == RefResolve(pre[i].refs, pre[i].HEAD, loc[i].ref)
RemoteOid(i) == RefResolve(pre[i].refs, pre[i].HEAD, loc[i].remote \o loc[i].ref)

C5_TrackingBranch ==
    \A i \in Callers :
        Started(i) =>
            /\ (LocalOid(i) = NoOid /\ RemoteOid(i) # NoOid) =>
                /\ refs[Heads(loc[i].ref)] = RemoteOid(i)
                /\ config[RemoteKey(loc[i].ref)] = loc[i].remote
                /\ config[MergeKey(loc[i].ref)] = Heads(loc[i].ref)
            /\ LocalOid(i) # NoOid =>
                /\ refs = pre[i].refs
                /\ config = pre[i].config

C5_Witness ==
    \E i \in Callers :
        /\ Over(i)
        /\ LocalOid(i) = NoOid
        /\ RemoteOid(i) = KFeat
        /\ refs[Heads(loc[i].ref)] = KFeat
        /\ pre[i].refs[Heads(loc[i].ref)] = NoOid

\* C6: after a successful checkout(ref), HEAD names the expanded ref, and a
\* following currentBranch returns the expanded name (fullname) or its
\* abbreviation.
C6_HeadIsExpandedRef ==
    \A i \in Callers :
        (Over(i) /\ result[i].status = "ok") =>
            /\ HEAD = RefExpand(refs, loc[i].ref)
            /\ pc[i] = "asked" =>
                branch[i].name = IF branch[i].fullname
                                 THEN RefExpand(refs, loc[i].ref)
                                 ELSE RefAbbrev(RefExpand(refs, loc[i].ref))

C6_Witness ==
    \E i \in Callers :
        /\ pc[i] = "asked" /\ result[i].status = "ok"
        /\ loc[i].ref = <<"topic">>
        /\ HEAD = <<"refs", "heads", "topic">>
        /\ ~branch[i].fullname
        /\ branch[i].name = <<"topic">>

\* C7: when HEAD names refs/heads/<name>, currentBranch returns
\* refs/heads/<name> with fullname and <name> without, and the call changes
\* no ref.
C7_CurrentBranch ==
    [][\A i \in Callers :
        (pc[i] = "done" /\ pc'[i] = "asked") =>
            /\ refs' = refs
            /\ HEAD' = HEAD
            /\ \A b \in BranchNames :
                HEAD = Heads(b) =>
                    branch'[i].name = IF branch'[i].fullname THEN Heads(b) ELSE b]_vars

C7_Witness ==
    \E i \in Callers :
        /\ pc[i] = "asked"
        /\ HEAD = Heads(<<"feature">>)
        /\ branch[i].fullname
        /\ branch[i].name = <<"refs", "heads", "feature">>

\* C8: when paths are in a conflicting state, checkout returns (it does not
\* throw) a list holding exactly one conflict for each of them.
Conflicting(head, next, file) ==
    /\ next.type \in {"none", "blob"}
    /\ \/ /\ TreeExists(head) /\ ~TreeExists(next)
          /\ file # NoFile /\ WorkdirOid(file) # head.oid
       \/ /\ ~TreeExists(head) /\ TreeExists(next)
          /\ file # NoFile /\ WorkdirOid(file) # next.oid
       \/ /\ TreeExists(head) /\ TreeExists(next) /\ head.oid # next.oid
          /\ WorkdirOid(file) \notin {head.oid, next.oid}

ConflictingPaths(i) ==
    {p \in Paths : Conflicting(HeadTree(i)[p], NextTree(i)[p], pre[i].wd[p])}

C8_ConflictsCollected ==
    \A i \in Callers :
        (Over(i) /\ Compared(i)) =>
            /\ ConflictingPaths(i) # {} => result[i].status = "conflicts"
            /\ ConflictPaths(i) = ConflictingPaths(i)
            /\ Len(loc[i].errors) = Cardinality(ConflictingPaths(i))

C8_Witness ==
    \E i \in Callers :
        /\ Over(i) /\ Compared(i)
        /\ result[i].status = "conflicts"
        /\ Len(loc[i].errors) >= 2
        /\ loc[i].errors[1].why # loc[i].errors[2].why

\* C9: every file write or removal, index mutation and HEAD rewrite of a
\* checkout is done while it holds the index lock, and while one caller is
\* in its apply phase no other caller mutates.
Applying(j) == pc[j] \in {"unlinks", "writes", "clean", "rebuild", "head"}
Guarded(m) == m.kind \in {"rm", "write", "index", "HEAD"}

C9_MutationsUnderLock ==
    [][\A i \in Callers :
        ( \/ \E m \in muts'[i] \ muts[i] : Guarded(m)
          \/ (pc'[i] # pc[i] /\ <<wd, index, HEAD>>' # <<wd, index, HEAD>>) )
        => /\ lock = i
           /\ \A j \in Callers \ {i} : ~Applying(j)]_vars

C9_Witness ==
    \E i, j \in Callers :
        /\ i # j
        /\ pc[i] = "rebuild" /\ lock = i
        /\ \E m \in muts[i] : m.kind = "rm"
        /\ pc[j] = "acquire"
        /\ loc[j].operations # <<>>

\* C10: when the commit the target ref resolves to is missing from storage,
\* checkout fails with CommitNotFetchedError carrying that oid; any other
\* missing object keeps the ReadObjectFail error.
C10_CommitNotFetched ==
    \A i \in Callers :
        Over(i) =>
            /\ (loc[i].oid # NoOid /\ loc[i].oid \notin StoredCommits) =>
                (result[i].status = "throw" /\ result[i].code = "CommitNotFetchedError")
            /\ (result[i].status = "throw" /\ result[i].code = "CommitNotFetchedError") =>
                loc[i].oid \notin StoredCommits

\* C11: after a successful checkout the index holds an entry for exactly
\* the blob paths of the new tree; no entry of the previous index survives
\* for a path that the new tree does not have.
IndexPaths(ix) == {p \in Paths : ix[p] # NoOid}

C11_IndexRebuilt ==
    \A i \in Callers :
        (Over(i) /\ result[i].status = "ok") =>
            IndexPaths(index) = {p \in Paths : NextTree(i)[p].type = "blob"}

C11_Witness ==
    \E i \in Callers, p \in Paths :
        /\ Over(i) /\ result[i].status = "ok"
        /\ pre[i].index[p] # NoOid
        /\ ~TreeExists(NextTree(i)[p])
        /\ index[p] = NoOid
        /\ IndexPaths(index) # {}

\* What the walk decided for a path: the kind of the element it appended for
\* it, or no-op.
Walked(i) == i \in active /\ pc[i] \notin {"idle", "classify"} /\ Compared(i)

OpsAt(i, p) == {k \in 1..Len(loc[i].operations) : loc[i].operations[k].filepath = p}
ErrsAt(i, p) == {k \in 1..Len(loc[i].errors) : loc[i].errors[k].filepath = p}

Classification(i, p) ==
    IF ErrsAt(i, p) # {} THEN "conflict"
    ELSE IF \E k \in OpsAt(i, p) : loc[i].operations[k].op = "unlink" THEN "delete"
    ELSE IF \E k \in OpsAt(i, p) : loc[i].operations[k].op = "write" THEN "write"
    ELSE "no-op"

FilePath(i, p) ==
    /\ HeadTree(i)[p].type \in {"none", "blob"}
    /\ NextTree(i)[p].type \in {"none", "blob"}

\* The reconciler table, read with an absent file counting as "not equal to
\* head" for a path that next deletes.
TableAsStated(head, next, file) ==
    IF ~TreeExists(head) /\ ~TreeExists(next) THEN "no-op"
    ELSE IF TreeExists(head) /\ ~TreeExists(next) THEN
        (IF file # NoFile /\ WorkdirOid(file) = head.oid THEN "delete" ELSE "conflict")
    ELSE IF ~TreeExists(head) /\ TreeExists(next) THEN
        (IF file = NoFile THEN "write"
         ELSE IF WorkdirOid(file) = next.oid THEN "no-op"
         ELSE "conflict")
    ELSE IF head.oid = next.oid THEN "no-op"
    ELSE IF WorkdirOid(file) = next.oid THEN "no-op"
    ELSE IF WorkdirOid(file) = head.oid THEN "write"
    ELSE "conflict"

\* The table with the row of lines 107-110: a path that next deletes and
\* whose file is already gone needs no change.
Table(head, next, file) ==
    IF TreeExists(head) /\ ~TreeExists(next) /\ file = NoFile THEN "no-op"
    ELSE TableAsStated(head, next, file)

\* C12 as stated: every file path is classified as the reconciler table
\* says, a path in head, absent from next, whose file is absent being a
\* conflict.
C12_TableAsStated ==
    \A i \in Callers, p \in Paths :
        (Walked(i) /\ FilePath(i, p)) =>
            Classification(i, p) = TableAsStated(HeadTree(i)[p], NextTree(i)[p], pre[i].wd[p])

\* C12, amended: every file path is classified as the reconciler table says,
\* a path in head, absent from next, whose file is absent being a no-op; a
\* path identical across the file, head and next queues nothing and reports
\* nothing.
C12_Table ==
    \A i \in Callers, p \in Paths :
        (Walked(i) /\ FilePath(i, p)) =>
            /\ Classification(i, p) = Table(HeadTree(i)[p], NextTree(i)[p], pre[i].wd[p])
            /\ ( /\ TreeExists(HeadTree(i)[p])
                 /\ HeadTree(i)[p].oid = NextTree(i)[p].oid
                 /\ WorkdirOid(pre[i].wd[p]) = HeadTree(i)[p].oid )
               => (OpsAt(i, p) = {} /\ ErrsAt(i, p) = {})

C12_Witness ==
    \E i \in Callers, p, q \in Paths :
        /\ Walked(i) /\ FilePath(i, p) /\ FilePath(i, q)
        /\ TreeExists(HeadTree(i)[p]) /\ ~TreeExists(NextTree(i)[p])
        /\ pre[i].wd[p] = NoFile
        /\ Classification(i, p) = "no-op"
        /\ Classification(i, q) = "delete"

\* C13: HEAD is rewritten only by the last step of a checkout, after the
\* unlinks, the writes and the index rebuild went through, and nothing is
\* mutated after it; a checkout that throws leaves HEAD naming the ref it
\* named before the call.
C13_HeadLast ==
    [][\A i \in Callers :
        /\ ( /\ pc'[i] # pc[i]
             /\ (HEAD' # HEAD \/ Mut("HEAD", 0) \in muts'[i] \ muts[i]) )
           => /\ pc[i] = "head" /\ pc'[i] = "done"
              /\ Mut("index", 0) \in muts[i]
              /\ result'[i].status = "ok"
        /\ Mut("HEAD", 0) \in muts[i] => (muts'[i] = muts[i] /\ repo' = repo)
        /\ result'[i].status = "throw" => HEAD' = pre'[i].HEAD]_vars

C13_Witness ==
    \E i \in Callers :
        /\ Over(i)
        /\ result[i].status = "throw" /\ result[i].code = "InternalFail"
        /\ \E m \in muts[i] : m.kind = "write"
        /\ loc[i].fullRef # pre[i].HEAD
        /\ HEAD = pre[i].HEAD

\* C14: when the writes loop begins, every queued unlink has been executed
\* and no file has been written yet, whatever the order of the queue; the
\* apply phase runs only with an empty conflict list.
C14_UnlinksBeforeWrites ==
    \A i \in Callers :
        /\ pc[i] = "writes" =>
            \A k \in 1..Len(loc[i].operations) :
                loc[i].operations[k].op = "unlink" =>
                    /\ wd[loc[i].operations[k].filepath] = NoFile
                    /\ Mut("rm", loc[i].operations[k].filepath) \in muts[i]
        /\ pc[i] \in {"unlinks", "writes"} => \A m \in muts[i] : m.kind # "write"
        /\ (Applying(i) \/ lock = i) => loc[i].errors = <<>>

C14_Witness ==
    \E i \in Callers :
        /\ pc[i] = "writes"
        /\ Len(loc[i].operations) = 2
        /\ loc[i].operations[1].op = "write"
        /\ loc[i].operations[2].op = "unlink"
        /\ pre[i].wd[loc[i].operations[2].filepath] # NoFile

\* C15: the classification walk leaves the working directory, the index,
\* the refs, the config and HEAD as they are and performs no mutation; it
\* only fills the operations and errors lists, with at most one element
\* (operation or conflict) for each path.
C15_ClassifyOnlyQueues ==
    [][\A i \in Callers :
        (pc[i] = "classify" /\ pc'[i] # "classify") =>
            /\ repo' = repo
            /\ muts' = muts
            /\ loc[i].operations = <<>> /\ loc[i].errors = <<>>
            /\ \A p \in Paths :
                Cardinality({k \in 1..Len(loc'[i].operations) :
                                loc'[i].operations[k].filepath = p})
                + Cardinality({k \in 1..Len(loc'[i].errors) :
                                loc'[i].errors[k].filepath = p}) <= 1]_vars

C15_Witness ==
    \E i \in Callers :
        /\ pc[i] = "acquire"
        /\ Len(loc[i].operations) = 2
        /\ loc[i].operations[1].op = "unlink"
        /\ pre[i].wd[loc[i].operations[1].filepath] # NoFile
        /\ wd = pre[i].wd /\ index = pre[i].index /\ HEAD = pre[i].HEAD

\* C16: a submodule entry of the new tree queues no operation and no
\* conflict, no file is written at its path, no index entry is inserted for
\* it, and a checkout that fails has another path to blame: a conflict, a
\* queued write, an invalid mode or a missing blob.
Submodule(i, p) == Walked(i) /\ NextTree(i)[p].type = "commit"

Blamed(i, q) ==
    \/ ErrsAt(i, q) # {}
    \/ \E k \in OpsAt(i, q) : loc[i].operations[k].op = "write"
    \/ /\ NextTree(i)[q].type = "blob"
       /\ \/ FileKind(NextTree(i)[q].mode) = "invalid"
          \/ ReadObjectMissing(NextTree(i)[q].oid)

C16_SubmoduleSkipped ==
    \A i \in Callers :
        /\ \A p \in Paths :
            Submodule(i, p) =>
                /\ OpsAt(i, p) = {} /\ ErrsAt(i, p) = {}
                /\ Mut("write", p) \notin muts[i]
                /\ Mut("index", p) \notin muts[i]
                /\ wd[p] \in {pre[i].wd[p], NoFile}
                /\ index[p] \in {pre[i].index[p], NoOid}
                /\ (Over(i) /\ result[i].status = "ok") => index[p] = NoOid
        /\ ( /\ Over(i) /\ result[i].status # "ok"
             /\ \E p \in Paths : Submodule(i, p) )
           => \E q \in Paths : ~Submodule(i, q) /\ Blamed(i, q)

C16_Witness ==
    \E i \in Callers, p \in Paths :
        /\ Over(i) /\ Submodule(i, p)
        /\ result[i].status = "ok"
        /\ \E q \in Paths : q # p /\ Mut("write", q) \in muts[i]
        /\ index[p] = NoOid

\* C17: a checkout whose ref is undefined, or resolves neither locally nor
\* as remote/ref, fails with the parameter or the resolution error having
\* created no ref, written no config key and changed neither the working
\* directory, the index nor HEAD.
Called(i) == i \in active /\ pc[i] # "idle"

Unresolvable(i) ==
    \/ loc[i].ref = Undefined
    \/ /\ RefResolve(pre[i].refs, pre[i].HEAD, loc[i].ref) = NoOid
       /\ RefResolve(pre[i].refs, pre[i].HEAD, loc[i].remote \o loc[i].ref) = NoOid

C17_ResolutionFails ==
    \A i \in Callers :
        (Called(i) /\ Unresolvable(i)) =>
            /\ Over(i)
            /\ result[i].status = "throw"
            /\ result[i].code = IF loc[i].ref = Undefined
                                THEN "MissingRequiredParameterError"
                                ELSE "ResolveRefError"
            /\ muts[i] = {}
            /\ repo = pre[i]
            /\ loc[i].operations = <<>> /\ loc[i].errors = <<>>

C17_Witness ==
    \E i \in Callers :
        /\ Over(i)
        /\ loc[i].ref = <<"ghost">>
        /\ result[i].code = "ResolveRefError"
        /\ refs[Heads(<<"ghost">>)] = NoOid
        /\ config[RemoteKey(<<"ghost">>)] = Unset

\* C18: after a successful checkout, a file with uncommitted local edits at
\* a path that head and next hold with the same oid (a no-op of the
\* classification) is exactly as it was before the call.
LocallyEdited(i, p) ==
    /\ HeadTree(i)[p].type = "blob" /\ NextTree(i)[p].type = "blob"
    /\ HeadTree(i)[p].oid = NextTree(i)[p].oid
    /\ pre[i].wd[p] # NoFile
    /\ WorkdirOid(pre[i].wd[p]) # HeadTree(i)[p].oid

C18_NoOpUntouched ==
    \A i \in Callers, p \in Paths :
        ( /\ Over(i) /\ Compared(i) /\ result[i].status = "ok"
          /\ LocallyEdited(i, p)
          /\ Classification(i, p) = "no-op" )
        => wd[p] = pre[i].wd[p]

\* C19: the plan a checkout applies under the index lock is the plan the
\* classification gives for the working directory, head tree and new tree
\* that are current when it has acquired the lock: no unlink or write is
\* applied to a path that changed since it was classified.
CurrentPlan(i) ==
    WalkCheckout(1, wd, store[RefResolve(refs, HEAD, <<"HEAD">>)], store[loc[i].oid])

C19_PlanCurrent ==
    \A i \in Callers :
        (pc[i] = "unlinks" /\ lock = i) =>
            /\ loc[i].operations = CurrentPlan(i).ops
            /\ CurrentPlan(i).errs = <<>>

\* C20: a file whose path is in neither tree and not in the index is the
\* same file at every point of a checkout, and no removal or write is done
\* at its path, whether the call succeeds, returns conflicts or fails.
Untracked(i, p) ==
    /\ pre[i].wd[p] # NoFile
    /\ ~TreeExists(HeadTree(i)[p])
    /\ Compared(i) => ~TreeExists(NextTree(i)[p])
    /\ pre[i].index[p] = NoOid

C20_UntrackedUntouched ==
    \A i \in Callers, p \in Paths :
        (Called(i) /\ Untracked(i, p)) =>
            /\ wd[p] = pre[i].wd[p]
            /\ Mut("rm", p) \notin muts[i]
            /\ Mut("write", p) \notin muts[i]
            /\ index[p] = NoOid

C20_Witness ==
    \E i \in Callers, p \in Paths :
        /\ Over(i) /\ Compared(i) /\ Untracked(i, p)
        /\ result[i].status = "ok"
        /\ \E q \in Paths : Mut("rm", q) \in muts[i] /\ wd[q] = NoFile
        /\ wd[p] = Work("v3")

====
